---- MODULE Spec2Model ----
(***************************************************************************)
(* Model of the 1457-solver repository: the PCHealSearcher.py program      *)
(* (get_round_1, get_round_2, main) and the 1457_solver.py program         *)
(* (build_round_1_map, calc_messages, main), over 16-bit words, plus the   *)
(* bit-by-bit expansion loop of get_round_2 run on its own at a chosen     *)
(* word width.                                                             *)
(***************************************************************************)
EXTENDS Integers, Sequences, FiniteSets, TLC

\* ------------------------------------------------------------------------
\* Bounds of the model
\* ------------------------------------------------------------------------

\* Largest number of words in the xor map read by a program run.
MaxWords == 3

\* Reduced word width at which the expansion loop is compared exhaustively
\* with a scan over all words.
W == 5

\* ------------------------------------------------------------------------
\* Program constants
\* ------------------------------------------------------------------------

\* Number of bits of a word: the loop bound 1 << 16 of get_round_2.
WordBits == 16

\* 1 << 16, the modulus of every checksum.
Two16 == 65536

\* MASK_16 of calc_messages.
MASK_16 == Two16 - 1

\* The egg flag tested by `x & 0x4000`.
EggBit == 16384

\* MAX_CHECKSUM of get_round_1.
MAX_CHECKSUM == 65535 * 24

\* The stride 3 << 16 of the checksum scan of get_round_1.
Stride == 3 * Two16

\* The stop value 0xC0000 of the scan of build_round_1_map.
ScanStop == 786432

\* ------------------------------------------------------------------------
\* Inputs
\* ------------------------------------------------------------------------

\* The words an xor map file is drawn from.
Pool == {0, 8192, 8193, 16383, 16384, 16385, 40960, 49152, 57344}

\* Base PP tables (moves csv): one with the PP depending on the move, one
\* with PPs large enough for calc_move_pp to wrap at 256, one that lacks
\* the row of a move.
PPByMove == [x \in Pool |-> 5 * (1 + (x % 8))]

PPLarge == [x \in Pool |-> 250]

PPMissing == [x \in Pool \ {16384} |-> 5 * (1 + (x % 8))]

MoveTables == {PPByMove, PPLarge, PPMissing}

XorMaps == {S \in SUBSET Pool : Cardinality(S) <= MaxWords}

\* ------------------------------------------------------------------------
\* Integer and bit operations of Python
\* ------------------------------------------------------------------------

Pow2(n) == 2 ^ n

\* x ^ y on non-negative integers.
RECURSIVE BitXor(_, _)
BitXor(x, y) ==
    IF x = 0 THEN y
    ELSE IF y = 0 THEN x
    ELSE (((x % 2) + (y % 2)) % 2) + (2 * BitXor(x \div 2, y \div 2))

\* x & y for y >= 0; x may be negative (two's complement of unbounded width).
RECURSIVE BitAnd(_, _)
BitAnd(x, y) ==
    IF y = 0 THEN 0
    ELSE ((x % 2) * (y % 2)) + (2 * BitAnd(x \div 2, y \div 2))

\* x & mask for a mask of the form 2^k - 1, the only masks the expansion
\* loop builds: the low k bits of x; x may be negative.
AndMask(x, msk) == x % (msk + 1)

\* x | y on non-negative integers.
RECURSIVE BitOr(_, _)
BitOr(x, y) ==
    IF x = 0 THEN y
    ELSE IF y = 0 THEN x
    ELSE (IF (x % 2) = 1 \/ (y % 2) = 1 THEN 1 ELSE 0) + (2 * BitOr(x \div 2, y \div 2))

\* range(start, stop, step) for step > 0.
Range(start, stop, step) ==
    IF stop <= start THEN << >>
    ELSE [i \in 1..((stop - start + step - 1) \div step) |-> start + ((i - 1) * step)]

SeqToSet(s) == {s[i] : i \in DOMAIN s}

NoDuplicates(s) == \A i, j \in DOMAIN s : i # j => s[i] # s[j]

\* sorted(S, reverse=True).
RECURSIVE SortedDescending(_)
SortedDescending(S) ==
    IF S = {} THEN << >>
    ELSE LET m == CHOOSE x \in S : \A y \in S : x >= y
         IN  <<m>> \o SortedDescending(S \ {m})

\* sorted(S): ascending.
RECURSIVE Sorted(_)
Sorted(S) ==
    IF S = {} THEN << >>
    ELSE LET m == CHOOSE x \in S : \A y \in S : x <= y
         IN  <<m>> \o Sorted(S \ {m})

\* The orders in which a Python set may be iterated.
IterationOrders(S) ==
    {s \in [1..Cardinality(S) -> S] : SeqToSet(s) = S}

\* {x for x in xor_values if x & 0x4000 == 0}
NotEgg(S) == {x \in S : BitAnd(x, EggBit) = 0}


\* ------------------------------------------------------------------------
\* PCHealSearcher.py: pure functions
\* ------------------------------------------------------------------------

calc_move_pp(base_pp, pp_ups) == (base_pp + ((base_pp \div 5) * pp_ups)) % 256

\* Round1Highs with the scan stopped one checksum early.
Round1HighsShortScan(key_low, key_highs) ==
    LET scan == Range(0, MAX_CHECKSUM - Stride, Stride)
        high == [i \in DOMAIN scan |-> (scan[i] - (key_low * 12)) \div 12]
    IN  SelectSeq(high, LAMBDA key_high : key_high \in key_highs)

\* Round1Highs with key_low left out of the subtraction.
Round1HighsNoLow(key_low, key_highs) ==
    LET scan == Range(0, MAX_CHECKSUM, Stride)
        high == [i \in DOMAIN scan |-> scan[i] \div 12]
    IN  SelectSeq(high, LAMBDA key_high : key_high \in key_highs)

\* The key_high values get_round_1 appends for one key_low, in the order
\* of the checksum scan.
Round1Highs(key_low, key_highs) ==
    LET scan == Range(0, MAX_CHECKSUM, Stride)
        high == [i \in DOMAIN scan |-> (scan[i] - (key_low * 12)) \div 12]
    IN  SelectSeq(high, LAMBDA key_high : key_high \in key_highs)

\* The dict returned by get_round_1: a key_low without key_high is no key.
get_round_1(key_lows, key_highs) ==
    [key_low \in {l \in key_lows : Round1Highs(l, key_highs) # << >>}
        |-> Round1Highs(key_low, key_highs)]

\* The (key_low, key_high) pairs of a round-1 dict in the order its items
\* are iterated: the keys were inserted in sorted order.
RECURSIVE PairsFrom(_, _, _)
PairsFrom(round_map, lows, i) ==
    IF i > Len(lows) THEN << >>
    ELSE [j \in DOMAIN round_map[lows[i]] |-> <<lows[i], round_map[lows[i]][j]>>]
         \o PairsFrom(round_map, lows, i + 1)

Round1Pairs(xor_map) ==
    LET round_map == get_round_1(xor_map, xor_map)
    IN  PairsFrom(round_map, Sorted(DOMAIN round_map), 1)

\* pp_ups[n] and pps[n] of get_round_2.
PpUps(low1, n) == BitAnd(low1 \div Pow2(2 * n), 3)

Pps(low1, high1, pp_table, n) ==
    calc_move_pp(pp_table[IF n \in {0, 2} THEN low1 ELSE high1], PpUps(low1, n))

\* pps_low and pps_high as first assigned (before the xor with low1, high1).
PpsLowWord(low1, high1, pp_table) ==
    BitOr(Pps(low1, high1, pp_table, 1) * 256, Pps(low1, high1, pp_table, 0))

PpsHighWord(low1, high1, pp_table) ==
    BitOr(Pps(low1, high1, pp_table, 3) * 256, Pps(low1, high1, pp_table, 2))

PairChecksum(low1, high1, pp_table) ==
    (low1 * 11) + (high1 * 11)
    + PpsLowWord(low1, high1, pp_table) + PpsHighWord(low1, high1, pp_table)

\* a = checksum - (11 * low2) - (pps_low ^ low2)
Residual(sum, low2, xlow) == sum - (11 * low2) - BitXor(xlow, low2)

\* 11 * solution + (pps_high ^ solution)
Mix(solution, xhigh) == (11 * solution) + BitXor(xhigh, solution)

\* ExpandOne with the mask of the previous pass: the new bit is not compared.
ExpandOneStaleMask(solution, hot, msk, target, xhigh) ==
    LET set == BitOr(solution, hot)
    IN  (IF AndMask(Mix(solution, xhigh), hot - 1) = AndMask(target, hot - 1)
            THEN <<solution>> ELSE << >>)
        \o (IF AndMask(Mix(set, xhigh), hot - 1) = AndMask(target, hot - 1)
            THEN <<set>> ELSE << >>)

\* The body of `for solution in solutions` for one solution: the bit set to
\* 0, then the bit set to 1.
ExpandOne(solution, hot, msk, target, xhigh) ==
    LET set == BitOr(solution, hot)
    IN  (IF AndMask(Mix(solution, xhigh), msk) = AndMask(target, msk)
            THEN <<solution>> ELSE << >>)
        \o (IF AndMask(Mix(set, xhigh), msk) = AndMask(target, msk)
            THEN <<set>> ELSE << >>)

\* new_solutions after one pass of the while loop.
RECURSIVE ExpandFrom(_, _, _, _, _, _)
ExpandFrom(sols, i, hot, msk, target, xhigh) ==
    IF i > Len(sols) THEN << >>
    ELSE ExpandOne(sols[i], hot, msk, target, xhigh)
         \o ExpandFrom(sols, i + 1, hot, msk, target, xhigh)

\* ExpandRound that keeps only the first extension that fits.
ExpandRoundFirstOnly(sols, hot, msk, target, xhigh) ==
    LET new == ExpandFrom(sols, 1, hot, msk, target, xhigh)
    IN  IF new = << >> THEN new ELSE <<new[1]>>

ExpandRound(sols, hot, msk, target, xhigh) ==
    ExpandFrom(sols, 1, hot, msk, target, xhigh)

\* Evaluations of 11 * y + (y ^ mask) in one pass of the while loop.
EvaluationsInRound(sols) == 2 * Len(sols)

\* The while loop from a given pass on, up to one_hot = limit.
RECURSIVE ExpandLoop(_, _, _, _, _, _)
ExpandLoop(sols, hot, msk, target, xhigh, limit) ==
    IF hot < limit
        THEN ExpandLoop(ExpandRound(sols, hot, msk, target, xhigh),
                        hot * 2, BitOr(msk * 2, 1), target, xhigh, limit)
        ELSE sols

\* solutions after the while loop of get_round_2.
BitExpand(target, xhigh) == ExpandLoop(<<0>>, 1, 1, target, xhigh, Pow2(WordBits))

\* FirstAdmissible with the membership test inverted.
FirstInadmissible(sols, highs) ==
    LET ok == SelectSeq(sols, LAMBDA solution : solution \notin highs)
    IN  IF ok = << >> THEN << >> ELSE <<ok[1]>>

\* The `for solution in solutions` loop after the expansion: the first
\* solution in key_highs, if any.
FirstAdmissible(sols, highs) ==
    LET ok == SelectSeq(sols, LAMBDA solution : solution \in highs)
    IN  IF ok = << >> THEN << >> ELSE <<ok[1]>>

\* Record that rebinds the map to the one new item.
RecordOnly(round_map, key, value) == key :> value

\* round_map[key] = value under `if key not in round_map`.
Record(round_map, key, value) ==
    IF key \in DOMAIN round_map THEN round_map ELSE round_map @@ (key :> value)

\* KeyLowsOf without the filter.
KeyLowsUnfiltered(order, round_map) == order

\* [x for x in xor_values if x not in round_1], given the order in which
\* xor_values is iterated.
KeyLowsOf(order, round_map) == SelectSeq(order, LAMBDA x : x \notin DOMAIN round_map)

\* ------------------------------------------------------------------------
\* 1457_solver.py: pure functions
\* ------------------------------------------------------------------------

\* The value build_round_1_map stores for one xor_value: the first hit of
\* the scan, if any.
FirstHigh(xor_value, xor_map) ==
    LET remainder == BitAnd(Two16 - (xor_value * 12), 65535)
        scan == Range(remainder, ScanStop, Two16)
        hits == SelectSeq(scan, LAMBDA i :
                    /\ (i % 12) = 0
                    /\ (i \div 12) \in xor_map
                    /\ BitAnd(i \div 12, EggBit) = 0)
    IN  IF hits = << >> THEN << >> ELSE <<hits[1] \div 12>>

build_round_1_map(xor_map) ==
    [xor_value \in {x \in xor_map : FirstHigh(x, xor_map) # << >>}
        |-> FirstHigh(xor_value, xor_map)[1]]

\* target_checksum = (1 << 16) - key_high
TargetChecksum(key_high) == Two16 - key_high

\* checksum of the two-message chain ending in (target, new_key_high).
ChainChecksum(target, new_key_high, encrypted_item) ==
    BitAnd((target * 12) + (new_key_high * 11)
           + BitXor(new_key_high, encrypted_item), MASK_16)

\* The chains appended for one (key_low, key_high) item, new_key_high taken
\* in the order xor_values is iterated.
ChainsOf(target, key_low, key_high, order) ==
    LET cands == SelectSeq(order, LAMBDA new_key_high :
                     /\ BitAnd(new_key_high, EggBit) # EggBit
                     /\ ChainChecksum(target, new_key_high, key_high)
                            = TargetChecksum(key_high))
    IN  [i \in DOMAIN cands |-> <<<<key_low, key_high>>, <<target, cands[i]>>>>]

RECURSIVE ChainsFrom(_, _, _, _, _)
ChainsFrom(target, round_map, lows, i, order) ==
    IF i > Len(lows) THEN << >>
    ELSE ChainsOf(target, lows[i], round_map[lows[i]], order)
         \o ChainsFrom(target, round_map, lows, i + 1, order)

\* messages as returned by calc_messages for a target in xor_values.
calc_messages(target, order, round_map) ==
    (IF target \in DOMAIN round_map
        THEN << <<<<target, round_map[target]>>>> >> ELSE << >>)
    \o ChainsFrom(target, round_map, Sorted(DOMAIN round_map), 1, order)

\* Number of chain checksums calc_messages evaluates.
ChainEvaluations(xor_map, round_map) ==
    Cardinality(DOMAIN round_map) * Cardinality(NotEgg(xor_map))

\* ------------------------------------------------------------------------
\* State
\* ------------------------------------------------------------------------

VARIABLES
    prog,               \* the script that runs
    pc,                 \* position in it
    xor_values,         \* get_xor_values(a.xor_map)
    move_pps,           \* read_moves_csv(a.moves_pp_csv)
    target_species,     \* a.target_species
    round_1,            \* PCHealSearcher.main: round_1
    key_lows,           \* get_round_2: key_lows
    key_highs,          \* get_round_2: key_highs
    round_1_pairs,      \* get_round_2: the pairs the generator round_1 yields
    pair_index,         \* get_round_2: position of `for low1, high1 in round_1`
    low_index,          \* get_round_2: position of `for low2 in key_lows`
    pps_low,            \* get_round_2: pps_low after `pps_low ^= low1`
    pps_high,           \* get_round_2: pps_high after `pps_high ^= high1`
    checksum,           \* get_round_2: checksum
    round_2,            \* get_round_2: round_2
    round_2_to_round_1, \* get_round_2: round_2_to_round_1
    round_3_needed,     \* PCHealSearcher.main: round_3_needed
    calls,              \* 1457_solver.main: the functions called so far
    round_1_map,        \* 1457_solver.main: round_1_map
    messages,           \* 1457_solver.main: results
    raised,             \* the args of the exception that ended the run
    chain_evals,        \* calc_messages: chain checksums evaluated
    word_bits,          \* expansion loop: the loop runs while one_hot < 1 << word_bits
    a,                  \* expansion loop: a
    solutions,          \* expansion loop: solutions
    one_hot,            \* expansion loop: one_hot
    mask,               \* expansion loop: mask
    evals               \* expansion loop: evaluations of 11 * y + (y ^ pps_high)

inputVars == <<prog, xor_values, move_pps, target_species>>

healVars == <<round_1, key_lows, key_highs, round_1_pairs, pair_index, low_index,
              checksum, round_2, round_2_to_round_1, round_3_needed>>

solverVars == <<calls, round_1_map, messages, chain_evals>>

loopVars == <<word_bits, a, solutions, one_hot, mask, evals>>

vars == <<inputVars, pc, pps_low, pps_high, raised, healVars, solverVars, loopVars>>

\* ------------------------------------------------------------------------
\* The two scripts
\* ------------------------------------------------------------------------

\* Nothing computed yet.
Fresh ==
    /\ round_1 = << >>
    /\ key_lows = << >>
    /\ key_highs = {}
    /\ round_1_pairs = << >>
    /\ pair_index = 0
    /\ low_index = 0
    /\ pps_low = 0
    /\ checksum = 0
    /\ round_2 = << >>
    /\ round_2_to_round_1 = << >>
    /\ round_3_needed = {}
    /\ calls = << >>
    /\ round_1_map = << >>
    /\ messages = << >>
    /\ raised = << >>
    /\ chain_evals = 0

Init ==
    /\ prog \in {"PCHealSearcher", "1457_solver"}
    /\ pc = "main"
    /\ xor_values \in XorMaps
    /\ move_pps \in (IF prog = "PCHealSearcher" THEN MoveTables ELSE {<< >>})
    /\ target_species \in (IF prog = "1457_solver" THEN Pool ELSE {0})
    /\ Fresh
    /\ pps_high = 0
    /\ word_bits = WordBits
    /\ a = 0
    /\ solutions = << >>
    /\ one_hot = 0
    /\ mask = 0
    /\ evals = 0

\* PCHealSearcher.main up to the entry of get_round_2's outer loop: round_1,
\* the arguments of get_round_2 and the generator over get_round_1's items.
HealMain ==
    /\ prog = "PCHealSearcher"
    /\ pc = "main"
    /\ round_1' = get_round_1(xor_values, NotEgg(xor_values))
    /\ \E order \in IterationOrders(xor_values) :
           key_lows' = KeyLowsOf(order, round_1')
    /\ key_highs' = NotEgg(xor_values)
    /\ round_1_pairs' = Round1Pairs(xor_values)
    /\ pair_index' = 1
    /\ pc' = "pair"
    /\ UNCHANGED <<inputVars, low_index, pps_low, pps_high, checksum, round_2,
                   round_2_to_round_1, round_3_needed, raised, solverVars, loopVars>>

low1 == round_1_pairs[pair_index][1]

high1 == round_1_pairs[pair_index][2]

\* `if low1 == 0: continue`
PairSkip ==
    /\ pc = "pair"
    /\ pair_index <= Len(round_1_pairs)
    /\ low1 = 0
    /\ pair_index' = pair_index + 1
    /\ UNCHANGED <<inputVars, pc, pps_low, pps_high, raised, round_1, key_lows,
                   key_highs, round_1_pairs, low_index, checksum, round_2,
                   round_2_to_round_1, round_3_needed, solverVars, loopVars>>

\* move_pps[low1] or move_pps[high1] raises KeyError.
PairKeyError ==
    /\ pc = "pair"
    /\ pair_index <= Len(round_1_pairs)
    /\ low1 # 0
    /\ ~(low1 \in DOMAIN move_pps /\ high1 \in DOMAIN move_pps)
    /\ pc' = "KeyError"
    /\ raised' = <<IF low1 \notin DOMAIN move_pps THEN low1 ELSE high1>>
    /\ UNCHANGED <<inputVars, pps_low, pps_high, healVars, solverVars, loopVars>>

\* pp_ups, pps, pps_low, pps_high and checksum of one (low1, high1).
PairBegin ==
    /\ pc = "pair"
    /\ pair_index <= Len(round_1_pairs)
    /\ low1 # 0
    /\ low1 \in DOMAIN move_pps /\ high1 \in DOMAIN move_pps
    /\ checksum' = PairChecksum(low1, high1, move_pps)
    /\ pps_low' = BitXor(PpsLowWord(low1, high1, move_pps), low1)
    /\ pps_high' = BitXor(PpsHighWord(low1, high1, move_pps), high1)
    /\ low_index' = 1
    /\ pc' = "low"
    /\ UNCHANGED <<inputVars, raised, round_1, key_lows, key_highs, round_1_pairs,
                   pair_index, round_2, round_2_to_round_1, round_3_needed,
                   solverVars, loopVars>>

low2 == key_lows[low_index]

\* `if low2 in round_2: continue`
LowSkip ==
    /\ pc = "low"
    /\ low_index <= Len(key_lows)
    /\ low2 \in DOMAIN round_2
    /\ low_index' = low_index + 1
    /\ UNCHANGED <<inputVars, pc, pps_low, pps_high, raised, round_1, key_lows,
                   key_highs, round_1_pairs, pair_index, checksum, round_2,
                   round_2_to_round_1, round_3_needed, solverVars, loopVars>>

\* One pass of `for low2 in key_lows` for a low2 not in round_2: the
\* residual target, the expansion loop and the recording of its first
\* solution in key_highs.
LowSolve ==
    /\ pc = "low"
    /\ low_index <= Len(key_lows)
    /\ low2 \notin DOMAIN round_2
    /\ \E found \in {FirstAdmissible(
                        BitExpand(Residual(checksum, low2, pps_low), pps_high),
                        key_highs)} :
           IF found = << >>
              THEN UNCHANGED <<round_2, round_2_to_round_1>>
              ELSE /\ round_2' = Record(round_2, low2, found[1])
                   /\ round_2_to_round_1' =
                          Record(round_2_to_round_1, low2, <<low1, high1>>)
    /\ low_index' = low_index + 1
    /\ UNCHANGED <<inputVars, pc, pps_low, pps_high, raised, round_1, key_lows,
                   key_highs, round_1_pairs, pair_index, checksum, round_3_needed,
                   solverVars, loopVars>>

\* `for low2 in key_lows` is exhausted: next (low1, high1).
PairEnd ==
    /\ pc = "low"
    /\ low_index > Len(key_lows)
    /\ pair_index' = pair_index + 1
    /\ pc' = "pair"
    /\ UNCHANGED <<inputVars, pps_low, pps_high, raised, round_1, key_lows,
                   key_highs, round_1_pairs, low_index, checksum, round_2,
                   round_2_to_round_1, round_3_needed, solverVars, loopVars>>

\* get_round_2 returns; main computes round_3_needed and prints.
HealReturn ==
    /\ pc = "pair"
    /\ pair_index > Len(round_1_pairs)
    /\ round_3_needed' = xor_values \ (DOMAIN round_1 \union DOMAIN round_2)
    /\ pc' = "done"
    /\ UNCHANGED <<inputVars, pps_low, pps_high, raised, round_1, key_lows,
                   key_highs, round_1_pairs, pair_index, low_index, checksum,
                   round_2, round_2_to_round_1, solverVars, loopVars>>

\* 1457_solver.main: round_1_map = build_round_1_map(xor_values)
SolverBuild ==
    /\ prog = "1457_solver"
    /\ pc = "main"
    /\ round_1_map' = build_round_1_map(xor_values)
    /\ calls' = Append(calls, "build_round_1_map")
    /\ pc' = "calc_messages"
    /\ UNCHANGED <<inputVars, pps_low, pps_high, raised, healVars, messages,
                   chain_evals, loopVars>>

\* calc_messages raises ValueError: target_species not in xor_values.
SolverRaise ==
    /\ pc = "calc_messages"
    /\ target_species \notin xor_values
    /\ calls' = Append(calls, "calc_messages")
    /\ raised' = <<"Species cannot be generated with provided xor map", target_species>>
    /\ pc' = "ValueError"
    /\ UNCHANGED <<inputVars, pps_low, pps_high, healVars, round_1_map, messages,
                   chain_evals, loopVars>>

\* calc_messages returns the chains (write_results then writes them out).
SolverCalc ==
    /\ pc = "calc_messages"
    /\ target_species \in xor_values
    /\ calls' = Append(calls, "calc_messages")
    /\ \E order \in IterationOrders(xor_values) :
           messages' = calc_messages(target_species, order, round_1_map)
    /\ chain_evals' = ChainEvaluations(xor_values, round_1_map)
    /\ pc' = "done"
    /\ UNCHANGED <<inputVars, pps_low, pps_high, raised, healVars, round_1_map,
                   loopVars>>

Next ==
    \/ HealMain
    \/ PairSkip
    \/ PairKeyError
    \/ PairBegin
    \/ LowSkip
    \/ LowSolve
    \/ PairEnd
    \/ HealReturn
    \/ SolverBuild
    \/ SolverRaise
    \/ SolverCalc

Spec == Init /\ [][Next]_vars

\* ------------------------------------------------------------------------
\* The expansion loop of get_round_2 on its own
\* ------------------------------------------------------------------------

\* Residual targets and masks at the full width.
Samples16 == {<<0, 0>>, <<16, 5>>, <<250, 90>>, <<-101097, 48879>>}

\* (width, a, pps_high): every mask and every residue, negative and
\* overflowing targets included, at the reduced width; samples at 16 bits.
LoopInputs ==
    {<<W, t, m>> : t \in (0 - Pow2(W))..(Pow2(W + 1) - 1), m \in 0..(Pow2(W) - 1)}
    \union {<<WordBits, s[1], s[2]>> : s \in Samples16}

\* solutions = [0]; one_hot = 1; mask = 1
InitExpand ==
    /\ prog = "expansion"
    /\ pc = "loop"
    /\ xor_values = {}
    /\ move_pps = << >>
    /\ target_species = 0
    /\ Fresh
    /\ \E in \in LoopInputs :
        /\ word_bits = in[1]
        /\ a = in[2]
        /\ pps_high = in[3]
    /\ solutions = <<0>>
    /\ one_hot = 1
    /\ mask = 1
    /\ evals = 0

\* One pass of `while one_hot < (1 << 16)`.
ExpandStep ==
    /\ pc = "loop"
    /\ one_hot < Pow2(word_bits)
    /\ solutions' = ExpandRound(solutions, one_hot, mask, a, pps_high)
    /\ evals' = evals + EvaluationsInRound(solutions)
    /\ one_hot' = one_hot * 2
    /\ mask' = BitOr(mask * 2, 1)
    /\ UNCHANGED <<inputVars, pc, pps_low, pps_high, raised, healVars, solverVars,
                   word_bits, a>>

\* The loop condition fails.
ExpandExit ==
    /\ pc = "loop"
    /\ ~(one_hot < Pow2(word_bits))
    /\ pc' = "done"
    /\ UNCHANGED <<inputVars, pps_low, pps_high, raised, healVars, solverVars, loopVars>>

NextExpand ==
    \/ ExpandStep
    \/ ExpandExit

SpecExpand == InitExpand /\ [][NextExpand]_vars

\* ------------------------------------------------------------------------
\* Properties of the expansion loop
\* ------------------------------------------------------------------------

\* The words a scan over all of [0, 2^bits) finds.
Scan(t, m, bits) ==
    {y \in 0..(Pow2(bits) - 1) : (Mix(y, m) % Pow2(bits)) = (t % Pow2(bits))}

RECURSIVE SumOfScans(_, _, _)
SumOfScans(t, m, k) ==
    IF k < 0 THEN 0 ELSE Cardinality(Scan(t, m, k)) + SumOfScans(t, m, k - 1)

LoopDone == prog = "expansion" /\ pc = "done"

\* C1: when the expansion loop ends, solutions has no duplicates and holds
\* exactly the words y with (11*y + (y XOR mask)) mod 2^width = a mod 2^width,
\* the set a scan over all words of that width produces.
C1_ExpansionEqualsScan ==
    LoopDone =>
        /\ NoDuplicates(solutions)
        /\ SeqToSet(solutions) = Scan(a, pps_high, word_bits)

\* C1 witness: a finished run with a negative target and several solutions.
C1_Witness ==
    LoopDone /\ a < 0 /\ Len(solutions) >= 4 /\ word_bits = W

Healing == prog = "PCHealSearcher"

HealDone == Healing /\ pc = "done"

SolverDone == prog = "1457_solver" /\ pc = "done"

\* (12*low + 12*high) mod 0x10000 == 0
Round1Equation(low, high) == (((12 * low) + (12 * high)) % Two16) = 0

\* Bit 14 of x is clear.
Bit14Clear(x) == ((x \div EggBit) % 2) = 0

StrictlyAscending(s) == \A i, j \in DOMAIN s : i < j => s[i] < s[j]

PairBefore(p, q) == p[1] < q[1] \/ (p[1] = q[1] /\ p[2] < q[2])

\* What holds of every get_round_1 and build_round_1_map pair: the equation,
\* and high in the set of highs the call was given.
Round1PairsFit ==
    /\ \A low \in DOMAIN round_1 : \A i \in DOMAIN round_1[low] :
           /\ Round1Equation(low, round_1[low][i])
           /\ round_1[low][i] \in key_highs
    /\ \A i \in DOMAIN round_1_pairs :
           /\ Round1Equation(round_1_pairs[i][1], round_1_pairs[i][2])
           /\ round_1_pairs[i][2] \in xor_values
    /\ \A low \in DOMAIN round_1_map :
           /\ Round1Equation(low, round_1_map[low])
           /\ round_1_map[low] \in xor_values

\* C3 as stated: every pair of get_round_1 (in main and inside get_round_2)
\* and of build_round_1_map satisfies the equation, has its high in the
\* supplied set, and has a high with bit 14 clear.
C3_EveryHighBit14Clear ==
    /\ Round1PairsFit
    /\ \A low \in DOMAIN round_1 : \A i \in DOMAIN round_1[low] :
           Bit14Clear(round_1[low][i])
    /\ \A i \in DOMAIN round_1_pairs : Bit14Clear(round_1_pairs[i][2])
    /\ \A low \in DOMAIN round_1_map : Bit14Clear(round_1_map[low])

\* C3 amended: every pair satisfies the equation and has its high in the
\* supplied set; the high has bit 14 clear for the pairs of main's
\* get_round_1 call and of build_round_1_map, not for those of the
\* get_round_1(xor_values, xor_values) call inside get_round_2.
C3_SuppliedHighBit14Clear ==
    /\ Round1PairsFit
    /\ \A low \in DOMAIN round_1 : \A i \in DOMAIN round_1[low] :
           Bit14Clear(round_1[low][i])
    /\ \A low \in DOMAIN round_1_map : Bit14Clear(round_1_map[low])

\* C3 witness: main's round_1 holds a pair while get_round_2 iterates a
\* pair whose high has bit 14 set.
C3_Witness ==
    /\ HealDone
    /\ round_1 # << >>
    /\ \E i \in DOMAIN round_1_pairs : ~Bit14Clear(round_1_pairs[i][2])

\* C9: get_round_1 maps each low to exactly the highs of the supplied set
\* that satisfy the equation, strictly ascending, and a low without such a
\* high is no key: for main's call (xor_values, key_highs) and for the call
\* inside get_round_2 (xor_values, xor_values), whose items are iterated
\* ascending by low, then by high.
C9_Round1Exact ==
    (Healing /\ pc # "main") =>
        /\ DOMAIN round_1 =
               {low \in xor_values : \E high \in key_highs : Round1Equation(low, high)}
        /\ \A low \in DOMAIN round_1 :
               /\ StrictlyAscending(round_1[low])
               /\ SeqToSet(round_1[low]) =
                      {high \in key_highs : Round1Equation(low, high)}
        /\ \A i, j \in DOMAIN round_1_pairs :
               i < j => PairBefore(round_1_pairs[i], round_1_pairs[j])
        /\ SeqToSet(round_1_pairs) =
               {p \in xor_values \X xor_values : Round1Equation(p[1], p[2])}

\* C9 witness: a low with two highs, the second found at the last checksum
\* of the scan (low + high = 7 * 0x4000).
C9_Witness ==
    /\ Healing
    /\ \E i \in DOMAIN round_1_pairs :
           /\ i > 1
           /\ round_1_pairs[i - 1][1] = round_1_pairs[i][1]
           /\ round_1_pairs[i][1] + round_1_pairs[i][2] = 7 * EggBit

\* The two-step checksum equation modulo 2^16.
TwoStep(l1, h1, l2, h2, pp_table) ==
    LET pl == PpsLowWord(l1, h1, pp_table)
        ph == PpsHighWord(l1, h1, pp_table)
    IN  (((11 * l2) + BitXor(BitXor(pl, l1), l2)
          + (11 * h2) + BitXor(BitXor(ph, h1), h2)) % Two16)
        = (((11 * l1) + (11 * h1) + pl + ph) % Two16)

\* C2: after get_round_2 returns, every low2 of round_2 has a back-reference
\* (low1, high1) with low1 != 0 that is a round-1 pair, its high2 is in
\* key_highs, and the two-step checksum equation holds modulo 2^16.
C2_ChainsSatisfyEquation ==
    HealDone =>
        \A l2 \in DOMAIN round_2 :
            /\ l2 \in DOMAIN round_2_to_round_1
            /\ round_2_to_round_1[l2][1] # 0
            /\ round_2_to_round_1[l2] \in SeqToSet(round_1_pairs)
            /\ Round1Equation(round_2_to_round_1[l2][1], round_2_to_round_1[l2][2])
            /\ round_2[l2] \in key_highs
            /\ TwoStep(round_2_to_round_1[l2][1], round_2_to_round_1[l2][2],
                       l2, round_2[l2], move_pps)

\* C2 witness: get_round_2 returned a non-empty round_2.
C2_Witness == HealDone /\ round_2 # << >>

\* The round-1 pairs a chain may start from, and the highs of key_highs that
\* solve the second round for low2 after such a pair.
ChainStarts ==
    {p \in xor_values \X xor_values : Round1Equation(p[1], p[2]) /\ p[1] # 0}

SecondHighs(p, l2) ==
    {h2 \in key_highs : TwoStep(p[1], p[2], l2, h2, move_pps)}

SolvingStarts(l2) == {p \in ChainStarts : SecondHighs(p, l2) # {}}

FirstPair(S) == CHOOSE p \in S : \A q \in S : p = q \/ PairBefore(p, q)

\* The bits of x in reverse order: the order of the solutions list is that
\* of the reversed words.
RECURSIVE Reversed(_, _)
Reversed(x, bits) ==
    IF bits = 0 THEN 0
    ELSE ((x % 2) * Pow2(bits - 1)) + Reversed(x \div 2, bits - 1)

FirstHighOf(S) ==
    CHOOSE h \in S : \A g \in S : Reversed(h, WordBits) <= Reversed(g, WordBits)

\* C8: after get_round_2 returns, a low2 of key_lows is a key of the output
\* exactly when some round-1 pair with low1 != 0 has a second-round solution
\* in key_highs; its back-reference is the first such pair, ascending by
\* low1 then high1, and its high2 the first solution of that pair: a result
\* fixed by the sets, whatever the order of key_lows.
C8_FirstPairWins ==
    HealDone =>
        \A l2 \in SeqToSet(key_lows) :
            /\ (l2 \in DOMAIN round_2) = (SolvingStarts(l2) # {})
            /\ (l2 \in DOMAIN round_2) = (l2 \in DOMAIN round_2_to_round_1)
            /\ l2 \in DOMAIN round_2 =>
                   /\ round_2_to_round_1[l2] = FirstPair(SolvingStarts(l2))
                   /\ round_2[l2] =
                          FirstHighOf(SecondHighs(FirstPair(SolvingStarts(l2)), l2))

\* C8 witness: get_round_2 returned, with several key_lows, an entry for a
\* low2 that two round-1 pairs solve.
C8_Witness ==
    /\ HealDone
    /\ Len(key_lows) >= 2
    /\ \E l2 \in DOMAIN round_2 : Cardinality(SolvingStarts(l2)) >= 2

\* C6: throughout get_round_2, round_2 and round_2_to_round_1 have the same
\* keys, and no step changes or removes the entry of a key either map holds.
C6_MapsGrow ==
    /\ [](DOMAIN round_2 = DOMAIN round_2_to_round_1)
    /\ [][\A l2 \in DOMAIN round_2 :
              /\ l2 \in DOMAIN round_2'
              /\ round_2'[l2] = round_2[l2]
              /\ round_2_to_round_1'[l2] = round_2_to_round_1[l2]]_vars

\* C6 witness: get_round_2 is still running with two entries recorded.
C6_Witness ==
    /\ Healing
    /\ pc = "low"
    /\ Cardinality(DOMAIN round_2) >= 2

\* C10: in PCHealSearcher.main the keys of round_1 and round_2 are disjoint
\* subsets of xor_values, round_3_needed is the rest of xor_values, and
\* len(round_1) + len(round_2) counts the values that are not in it.
C10_RoundsPartition ==
    HealDone =>
        /\ DOMAIN round_1 \intersect DOMAIN round_2 = {}
        /\ DOMAIN round_1 \subseteq xor_values
        /\ DOMAIN round_2 \subseteq xor_values
        /\ round_3_needed =
               {x \in xor_values : x \notin DOMAIN round_1 /\ x \notin DOMAIN round_2}
        /\ Cardinality(DOMAIN round_1) + Cardinality(DOMAIN round_2)
               = Cardinality(xor_values) - Cardinality(round_3_needed)

\* C10 witness: a run with values resolved in round 1, in round 2 and in
\* neither.
C10_Witness ==
    HealDone /\ round_1 # << >> /\ round_2 # << >> /\ round_3_needed # {}

\* The length-2 chains the two-message checksum equation admits.
ChainsOfEquation ==
    {<<<<key_low, round_1_map[key_low]>>, <<target_species, c>>>> :
        key_low \in DOMAIN round_1_map,
        c \in {x \in xor_values : Bit14Clear(x)}}

ChainFits(chain) ==
    (((12 * chain[2][1]) + (11 * chain[2][2])
      + BitXor(chain[2][2], chain[1][2]) + chain[1][2]) % Two16) = 0

\* C4: for a target in xor_values, the length-2 chains of calc_messages are
\* exactly the chains [(key_low, key_high), (target, c)] over the round-1
\* pairs and the c of xor_values with bit 14 clear that satisfy
\* (12*target + 11*c + (c XOR key_high) + key_high) mod 2^16 = 0, key_high = 0
\* included.
C4_AllChainsOfEquation ==
    SolverDone =>
        {messages[i] : i \in {j \in DOMAIN messages : Len(messages[j]) = 2}}
            = {chain \in ChainsOfEquation : ChainFits(chain)}

\* C5: when target_species is not in xor_values the run fails with an error
\* carrying the target, before build_round_1_map has run and before any
\* chain checksum is evaluated.
C5_FailsBeforeAnyWork ==
    (prog = "1457_solver" /\ pc = "ValueError") =>
        /\ raised[Len(raised)] = target_species
        /\ "build_round_1_map" \notin SeqToSet(calls)
        /\ chain_evals = 0

====
